---------------------------- MODULE Spec2Model ----------------------------
(***************************************************************************)
(* Model of src/app/main.py: the Bluesky -> Discord relay.                 *)
(*                                                                         *)
(*  - Spec   : the periodic sweep check_subscriptions_updates (membership  *)
(*             resolution, fetch with retry, dedup/age filter, delivery,   *)
(*             watermark commit and save).                                 *)
(*  - SpecRL : RateLimiter.acquire driven by an arbitrary sequence of      *)
(*             calls on a clock of sub-second ticks.                       *)
(*                                                                         *)
(* acquire() never raises and touches only the limiter's own call list,    *)
(* so in Spec the acquire at the head of every remote call is a pure delay *)
(* and the limiter's variables are left alone; its behaviour is SpecRL.    *)
(***************************************************************************)
EXTENDS Integers, Sequences, FiniteSets, TLC

\* ------------------------------------------------------------------ bounds
\* A fetched feed lists at most MaxFeed posts; the wall clock of the sweeps
\* runs up to MaxClock.
MaxFeed == 2
MaxClock == 3

\* The limiter is called at most MaxCalls times; its clock counts ticks,
\* TicksPerSecond to the second; its budget is calls_per_minute.
MaxCalls == 5
TicksPerSecond == 2
calls_per_minute == 2

\* the 60 seconds of timedelta(minutes=1) and of line 86
WINDOW_SECONDS == 60

\* timedelta(minutes=POST_AGE_MINUTES), in clock units
POST_AGE_THRESHOLD == 1

\* stop_after_attempt(3)
MAX_ATTEMPTS == 3

\* the members of the remote list, in list order
ListOrder == <<"A", "B", "C">>

Handles == {ListOrder[i] : i \in 1..Len(ListOrder)}

\* The posts each account has published, by their timestamps: post k of
\* account h is <<h, k>>.  Two posts of A share a timestamp.
PostTimes == [h \in Handles |-> IF h = "A" THEN <<0, 1, 1, 2>> ELSE <<1>>]

PostIds(h) == 1..Len(PostTimes[h])

PostTime(h, k) == PostTimes[h][k]

\* newest_time = None
NONE == -1

VARIABLES
    pc,                 \* position of the sweep task
    clock,              \* wall clock (datetime.now) as last read by a sweep
    current_time,       \* local current_time of the running sweep
    handles,            \* local handles: the resolved membership
    idx,                \* index in handles of the handle being processed
    attempts,           \* attempts made by fetch_posts for this handle
    feed,               \* response.feed of the current handle
    pos,                \* number of posts of reversed(feed) already visited
    newest_time,        \* local newest_time
    last_processed_times, \* the global dict handle -> iso string
    history_file,       \* content of HISTORY_FILE
    startW,             \* history: newest_time as read at line 262-264
    sent,               \* history: posts sent for this handle in this sweep
    outcome,            \* history: how the processing of this handle ended
    outcomes,           \* history: outcomes of the handles done in this sweep
    delivered,          \* history: <<handle, post>> pairs sent so far (up to
                        \* the crash, once there was one)
    resent,             \* history: some post was sent a second time
    lastResolve,        \* history: how the last finished get_list_members
                        \* call ended
    m_attempts,         \* history: remote list calls made by the
                        \* get_list_members call of this sweep
    crashed,            \* history: the process was killed and started again
    resentAfterCrash,   \* history: a post sent before the crash was sent again
    h_pc,               \* position of the health_check task
    cancelledAt,        \* history: where the sweep task was when cancelled
    rl_pc,              \* position of the task inside RateLimiter.acquire
    rl_clock,           \* wall clock of the limiter, in ticks
    rl_now,             \* local now of acquire
    wait_time,          \* local wait_time of acquire
    calls,              \* RateLimiter.calls
    started,            \* history: number of acquire() calls made
    admits,             \* history: the times at which acquire() returned
    recorded            \* history: every timestamp appended to calls

sweepVars == <<pc, clock, current_time, handles, idx, attempts, feed, pos,
               newest_time, last_processed_times, history_file, startW, sent,
               outcome, outcomes, delivered, resent>>

rlVars == <<rl_pc, rl_clock, rl_now, wait_time, calls, started, admits,
           recorded>>

resolveVars == <<lastResolve, m_attempts>>

crashVars == <<crashed, resentAfterCrash>>

healthVars == <<h_pc, cancelledAt>>

vars == <<sweepVars, rlVars, resolveVars, crashVars, healthVars>>

\* ------------------------------------------------------------- data helpers
\* all sequences of distinct elements of S of length at most n
DistinctSeqs(S, n) ==
    UNION {{s \in [1..m -> S] : \A i, j \in 1..m : i # j => s[i] # s[j]} :
           m \in 0..n}

Range(s) == {s[i] : i \in DOMAIN s}

\* post.post.indexed_at: the API's string, UTC written as a trailing Z
indexed_at(h, k) == [t |-> PostTime(h, k), tz |-> "Z"]

\* str.replace('Z', '+00:00')
replaceZ(s) == [s EXCEPT !.tz = IF @ = "Z" THEN "+00:00" ELSE @]

\* datetime.fromisoformat on an offset-suffixed string
fromisoformat(s) == s.t

\* datetime.isoformat of an aware UTC datetime
isoformat(t) == [t |-> t, tz |-> "+00:00"]

\* post_time of line 267
post_time(h, k) == fromisoformat(replaceZ(indexed_at(h, k)))

\* an assignment that replaces the dict by one holding the key h alone
DictSetAlone(d, h, v) == [x \in {h} |-> v]

\* the value of the dict with key h set to v
DictSet(d, h, v) ==
    [x \in DOMAIN d \cup {h} |-> IF x = h THEN v ELSE d[x]]

\* the watermark of h as a time, NONE when h is no key
Watermark(d, h) == IF h \in DOMAIN d THEN fromisoformat(d[h]) ELSE NONE

\* last_processed_times = {}
EmptyDict == [x \in {} |-> isoformat(0)]

\* the feeds the remote API may return for an account: any listing of
\* distinct posts, in any order (reposts and pins break the time order)
Feeds(h) == DistinctSeqs(PostIds(h), MaxFeed)

\* the memberships the remote list may resolve to: any non-empty part of
\* the list, in list order
Memberships ==
    {m \in DistinctSeqs(Handles, Len(ListOrder)) \ {<<>>} :
        \A i, j \in 1..Len(m) :
            i < j => \E a, b \in 1..Len(ListOrder) :
                        a < b /\ ListOrder[a] = m[i] /\ ListOrder[b] = m[j]}

\* --------------------------------------------------------------------- Init
Init ==
    /\ pc = "idle"
    /\ clock = 0
    /\ current_time = 0
    /\ handles = <<>>
    /\ idx = 0
    /\ attempts = 0
    /\ feed = <<>>
    /\ pos = 0
    /\ newest_time = NONE
    /\ last_processed_times = EmptyDict
    /\ history_file = EmptyDict
    /\ startW = NONE
    /\ sent = <<>>
    /\ outcome = "none"
    /\ outcomes = <<>>
    /\ delivered = {}
    /\ resent = FALSE
    /\ rl_pc = "idle"
    /\ rl_clock = 0
    /\ rl_now = 0
    /\ wait_time = 0
    /\ calls = <<>>
    /\ started = 0
    /\ admits = <<>>
    /\ recorded = <<>>
    /\ lastResolve = "none"
    /\ m_attempts = 0
    /\ crashed = FALSE
    /\ resentAfterCrash = FALSE
    /\ h_pc = "idle"
    /\ cancelledAt = "none"

\* ------------------------------------------------- check_subscriptions_updates
\* the handle of the loop at line 255
handle == handles[idx]

\* the locals of one pass of the loop body, as they are before line 257
ResetHandleLocals ==
    /\ attempts' = 0
    /\ feed' = <<>>
    /\ pos' = 0
    /\ newest_time' = NONE
    /\ startW' = NONE
    /\ sent' = <<>>
    /\ outcome' = "none"

\* the sweep function returns: its locals are gone
ReturnFromSweep ==
    /\ pc' = "idle"
    /\ current_time' = 0
    /\ handles' = <<>>
    /\ idx' = 0
    /\ outcomes' = <<>>
    /\ ResetHandleLocals

\* The loop fires; get_channel finds no channel: log and return (243-246).
TickNoChannel ==
    /\ pc = "idle"
    /\ \E t \in (clock + 1)..MaxClock : clock' = t
    /\ UNCHANGED <<pc, current_time, handles, idx, attempts, feed, pos,
                   newest_time, last_processed_times, history_file, startW,
                   sent, outcome, outcomes, delivered, resent>>
    /\ UNCHANGED <<rlVars, resolveVars, crashVars, healthVars>>

\* The loop fires and the channel is found: go on to get_list_members (248).
Tick ==
    /\ pc = "idle"
    /\ \E t \in (clock + 1)..MaxClock : clock' = t
    /\ pc' = "resolve"
    /\ m_attempts' = 0
    /\ UNCHANGED lastResolve
    /\ UNCHANGED <<current_time, handles, idx, attempts, feed, pos,
                   newest_time, last_processed_times, history_file, startW,
                   sent, outcome, outcomes, delivered, resent>>
    /\ UNCHANGED <<rlVars, crashVars, healthVars>>

\* "if not handles" that also forgets the watermarks
OnNoHandlesClears ==
    /\ ReturnFromSweep
    /\ last_processed_times' = EmptyDict
    /\ UNCHANGED <<clock, history_file, delivered, resent>>

\* lines 249-251: no handles; log and return
OnNoHandles ==
    /\ ReturnFromSweep
    /\ UNCHANGED <<clock, last_processed_times, history_file, delivered, resent>>

\* get_list_members: the remote call raises; the except of line 144 logs
\* and returns [], so that the retry decorator of line 120 sees a normal
\* return and attempts nothing again; the sweep returns at line 251.
GetListMembersFails ==
    /\ pc = "resolve"
    /\ m_attempts' = m_attempts + 1
    /\ lastResolve' = "raised"
    /\ OnNoHandles
    /\ UNCHANGED <<rlVars, crashVars, healthVars>>

\* get_list_members: no items in the list; returns [] (131-133) and the
\* sweep returns at line 251.
GetListMembersEmpty ==
    /\ pc = "resolve"
    /\ m_attempts' = m_attempts + 1
    /\ lastResolve' = "empty"
    /\ OnNoHandles
    /\ UNCHANGED <<rlVars, crashVars, healthVars>>

\* get_list_members returns the members; current_time is read (253) and the
\* loop over the handles starts.
GetListMembersOk ==
    /\ pc = "resolve"
    /\ m_attempts' = m_attempts + 1
    /\ lastResolve' = "ok"
    /\ \E m \in Memberships : handles' = m
    /\ current_time' = clock
    /\ idx' = 1
    /\ outcomes' = <<>>
    /\ ResetHandleLocals
    /\ pc' = "fetch"
    /\ UNCHANGED <<clock, last_processed_times, history_file, delivered, resent>>
    /\ UNCHANGED <<rlVars, crashVars, healthVars>>

\* a stop condition that lets one attempt too many through
StopAfterAttemptLate(n) == n > MAX_ATTEMPTS

\* stop_after_attempt(3): no further attempt after attempt number n
StopAfterAttempt(n) == n >= MAX_ATTEMPTS

\* the exception is not caught per handle: it ends the sweep
OnUserErrorEscapes(what) ==
    /\ outcome' = what
    /\ pc' = "idle"
    /\ UNCHANGED <<current_time, handles, idx, outcomes>>

\* except Exception as user_error (287-288): log, go on with the next handle
OnUserError(what) ==
    /\ outcome' = what
    /\ pc' = "done"
    /\ UNCHANGED <<current_time, handles, idx, outcomes>>

\* fetch_posts: the remote call raises and tenacity tries again.
FetchRetry ==
    /\ pc = "fetch"
    /\ ~StopAfterAttempt(attempts + 1)
    /\ attempts' = attempts + 1
    /\ UNCHANGED <<pc, clock, current_time, handles, idx, feed, pos,
                   newest_time, last_processed_times, history_file, startW,
                   sent, outcome, outcomes, delivered, resent>>
    /\ UNCHANGED <<rlVars, resolveVars, crashVars, healthVars>>

\* fetch_posts: the remote call raises on the last attempt; tenacity raises
\* RetryError, caught at line 287.
FetchExhausted ==
    /\ pc = "fetch"
    /\ StopAfterAttempt(attempts + 1)
    /\ attempts' = attempts + 1
    /\ OnUserError("fetchfail")
    /\ UNCHANGED <<clock, feed, pos, newest_time, last_processed_times,
                   history_file, startW, sent, delivered, resent>>
    /\ UNCHANGED <<rlVars, resolveVars, crashVars, healthVars>>

\* fetch_posts returns no response or an empty feed: continue (259-260).
FetchEmpty ==
    /\ pc = "fetch"
    /\ attempts' = attempts + 1
    /\ outcome' = "empty"
    /\ pc' = "done"
    /\ UNCHANGED <<clock, current_time, handles, idx, feed, pos, newest_time,
                   last_processed_times, history_file, startW, sent, outcomes,
                   delivered, resent>>
    /\ UNCHANGED <<rlVars, resolveVars, crashVars, healthVars>>

\* lines 262-264 with the watermark never read: newest_time stays None
InitialNewestUnread(d, h) == NONE

\* lines 262-264: newest_time = None, or the parsed watermark of the handle
InitialNewest(d, h) == Watermark(d, h)

\* fetch_posts returns a feed; newest_time is read from the dict (262-264).
FetchOk ==
    /\ pc = "fetch"
    /\ attempts' = attempts + 1
    /\ \E f \in Feeds(handle) \ {<<>>} : feed' = f
    /\ newest_time' = InitialNewest(last_processed_times, handle)
    /\ startW' = Watermark(last_processed_times, handle)
    /\ pos' = 0
    /\ pc' = "post"
    /\ UNCHANGED <<clock, current_time, handles, idx, last_processed_times,
                   history_file, sent, outcome, outcomes, delivered, resent>>
    /\ UNCHANGED <<rlVars, resolveVars, crashVars, healthVars>>

\* the post visited next by  for post in reversed(response.feed)
post == feed[Len(feed) - pos]

\* an age check that excludes the boundary
TooOldExclusive(now, h, k) == now - post_time(h, k) >= POST_AGE_THRESHOLD

\* line 269: post_age := current_time - post_time > POST_AGE_THRESHOLD
TooOld(now, h, k) == now - post_time(h, k) > POST_AGE_THRESHOLD

\* a dedup check that lets a post at the watermark through
AlreadySeenStrict(newest, h, k) == newest # NONE /\ post_time(h, k) < newest

\* line 272: newest_time and post_time <= newest_time
AlreadySeen(newest, h, k) == newest # NONE /\ post_time(h, k) <= newest

\* newest_time set from the first post only
NewestAfterFirstOnly(newest, h, k) ==
    IF newest = NONE THEN post_time(h, k) ELSE newest

\* lines 275-276
NewestAfter(newest, h, k) ==
    IF newest = NONE \/ post_time(h, k) > newest
    THEN post_time(h, k) ELSE newest

\* The loop of lines 266-281 as a function, every send succeeding: the posts
\* sent, in order, and the final newest_time, for feed f of handle h visited
\* from position i on with newest_time = newest.
RECURSIVE Loop(_, _, _, _, _, _)
Loop(h, f, i, newest, acc, now) ==
    IF i = Len(f) THEN [sent |-> acc, newest |-> newest]
    ELSE LET k == f[Len(f) - i]
         IN  IF TooOld(now, h, k) \/ AlreadySeen(newest, h, k)
             THEN Loop(h, f, i + 1, newest, acc, now)
             ELSE Loop(h, f, i + 1, NewestAfter(newest, h, k),
                       Append(acc, k), now)

FilterLoop(h, f, W, now) == Loop(h, f, 0, W, <<>>, now)

\* line 270: continue
SkipOld ==
    /\ pc = "post"
    /\ pos < Len(feed)
    /\ TooOld(current_time, handle, post)
    /\ pos' = pos + 1
    /\ UNCHANGED <<pc, clock, current_time, handles, idx, attempts, feed,
                   newest_time, last_processed_times, history_file, startW,
                   sent, outcome, outcomes, delivered, resent>>
    /\ UNCHANGED <<rlVars, resolveVars, crashVars, healthVars>>

\* line 273: continue
SkipSeen ==
    /\ pc = "post"
    /\ pos < Len(feed)
    /\ ~TooOld(current_time, handle, post)
    /\ AlreadySeen(newest_time, handle, post)
    /\ pos' = pos + 1
    /\ UNCHANGED <<pc, clock, current_time, handles, idx, attempts, feed,
                   newest_time, last_processed_times, history_file, startW,
                   sent, outcome, outcomes, delivered, resent>>
    /\ UNCHANGED <<rlVars, resolveVars, crashVars, healthVars>>

\* lines 275-281 with create_post_embed and channel.send returning
SendOk ==
    /\ pc = "post"
    /\ pos < Len(feed)
    /\ ~TooOld(current_time, handle, post)
    /\ ~AlreadySeen(newest_time, handle, post)
    /\ newest_time' = NewestAfter(newest_time, handle, post)
    /\ sent' = Append(sent, post)
    /\ delivered' = IF crashed THEN delivered
                     ELSE delivered \cup {<<handle, post>>}
    /\ resent' = (resent \/ <<handle, post>> \in delivered)
    /\ resentAfterCrash' =
           (resentAfterCrash \/ (crashed /\ <<handle, post>> \in delivered))
    /\ pos' = pos + 1
    /\ UNCHANGED <<pc, clock, current_time, handles, idx, attempts, feed,
                   last_processed_times, history_file, startW, outcome,
                   outcomes, crashed>>
    /\ UNCHANGED <<rlVars, resolveVars, healthVars>>

\* lines 275-281 with create_post_embed or channel.send raising: the
\* exception leaves the loop over the posts and is caught at line 287.
SendFails ==
    /\ pc = "post"
    /\ pos < Len(feed)
    /\ ~TooOld(current_time, handle, post)
    /\ ~AlreadySeen(newest_time, handle, post)
    /\ newest_time' = NewestAfter(newest_time, handle, post)
    /\ OnUserError("sendfail")
    /\ UNCHANGED <<clock, attempts, feed, pos, last_processed_times,
                   history_file, startW, sent, delivered, resent>>
    /\ UNCHANGED <<rlVars, resolveVars, crashVars, healthVars>>

\* the sweep time stored as the watermark
CommitValueSweepTime(newest) == isoformat(current_time)

\* line 284: newest_time.isoformat()
CommitValue(newest) == isoformat(newest)

\* lines 283-285 with save_history writing the file
CommitSaved ==
    /\ pc = "post"
    /\ pos = Len(feed)
    /\ newest_time # NONE
    /\ last_processed_times' =
           DictSet(last_processed_times, handle, CommitValue(newest_time))
    /\ history_file' = last_processed_times'
    /\ outcome' = "ok"
    /\ pc' = "done"
    /\ UNCHANGED <<clock, current_time, handles, idx, attempts, feed, pos,
                   newest_time, startW, sent, outcomes, delivered, resent>>
    /\ UNCHANGED <<rlVars, resolveVars, crashVars, healthVars>>

\* lines 283-285 with save_history failing: it logs and returns (112-113)
CommitSaveFails ==
    /\ pc = "post"
    /\ pos = Len(feed)
    /\ newest_time # NONE
    /\ last_processed_times' =
           DictSet(last_processed_times, handle, CommitValue(newest_time))
    /\ outcome' = "ok"
    /\ pc' = "done"
    /\ UNCHANGED <<clock, current_time, handles, idx, attempts, feed, pos,
                   newest_time, history_file, startW, sent, outcomes,
                   delivered, resent>>
    /\ UNCHANGED <<rlVars, resolveVars, crashVars, healthVars>>

\* line 283 with newest_time None: nothing is committed
NoCommit ==
    /\ pc = "post"
    /\ pos = Len(feed)
    /\ newest_time = NONE
    /\ outcome' = "ok"
    /\ pc' = "done"
    /\ UNCHANGED <<clock, current_time, handles, idx, attempts, feed, pos,
                   newest_time, last_processed_times, history_file, startW,
                   sent, outcomes, delivered, resent>>
    /\ UNCHANGED <<rlVars, resolveVars, crashVars, healthVars>>

\* a for loop that takes the same handle again
NextHandleRepeats ==
    /\ pc = "done"
    /\ idx < Len(handles)
    /\ idx' = idx
    /\ outcomes' = outcomes
    /\ ResetHandleLocals
    /\ pc' = "fetch"
    /\ UNCHANGED <<clock, current_time, handles, last_processed_times,
                   history_file, delivered, resent>>
    /\ UNCHANGED <<rlVars, resolveVars, crashVars, healthVars>>

\* the for loop of line 255 takes the next handle
NextHandle ==
    /\ pc = "done"
    /\ idx < Len(handles)
    /\ idx' = idx + 1
    /\ outcomes' = Append(outcomes, outcome)
    /\ ResetHandleLocals
    /\ pc' = "fetch"
    /\ UNCHANGED <<clock, current_time, handles, last_processed_times,
                   history_file, delivered, resent>>
    /\ UNCHANGED <<rlVars, resolveVars, crashVars, healthVars>>

\* the for loop of line 255 is exhausted: the sweep returns
SweepDone ==
    /\ pc = "done"
    /\ idx = Len(handles)
    /\ ReturnFromSweep
    /\ UNCHANGED <<clock, last_processed_times, history_file, delivered, resent>>
    /\ UNCHANGED <<rlVars, resolveVars, crashVars, healthVars>>

Next ==
    \/ TickNoChannel
    \/ Tick
    \/ GetListMembersFails
    \/ GetListMembersEmpty
    \/ GetListMembersOk
    \/ FetchRetry
    \/ FetchExhausted
    \/ FetchEmpty
    \/ FetchOk
    \/ SkipOld
    \/ SkipSeen
    \/ SendOk
    \/ SendFails
    \/ CommitSaved
    \/ CommitSaveFails
    \/ NoCommit
    \/ NextHandle
    \/ SweepDone

Spec == Init /\ [][Next]_vars

\* ------------------------------------------------------- RateLimiter.acquire
WINDOW == WINDOW_SECONDS * TicksPerSecond

\* the time between the return of a call and the next call, in ticks
Delays == {0, 1, TicksPerSecond, WINDOW - TicksPerSecond, WINDOW - 1, WINDOW}

\* how late asyncio.sleep may return, in ticks
Lateness == {0, 1}

Min(S) == CHOOSE x \in S : \A y \in S : x <= y

\* line 83: [t for t in self.calls if now - t < timedelta(minutes=1)]
Pruned(cs, now) == SelectSeq(cs, LAMBDA t : now - t < WINDOW)

\* timedelta.seconds of a difference below one day
Seconds(d) == d \div TicksPerSecond

\* line 85
LimitHit(cs) == Len(cs) >= calls_per_minute

\* a wait that is the seconds elapsed, not 60 minus them
WaitTimeNoSubtract(cs, now) == Seconds(now - Min(Range(cs)))

\* line 86: 60 - (now - min(self.calls)).seconds
WaitTime(cs, now) == WINDOW_SECONDS - Seconds(now - Min(Range(cs)))

\* acquire() with room in the window: prune, append, return (82-90).
AcquireAdmit ==
    /\ rl_pc = "idle"
    /\ started < MaxCalls
    /\ \E d \in Delays :
         LET now == rl_clock + d
             kept == Pruned(calls, now)
         IN  /\ ~LimitHit(kept)
             /\ rl_clock' = now
             /\ rl_now' = now
             /\ calls' = Append(kept, now)
             /\ recorded' = Append(recorded, now)
             /\ admits' = Append(admits, now)
    /\ started' = started + 1
    /\ UNCHANGED <<rl_pc, wait_time>>
    /\ UNCHANGED <<sweepVars, resolveVars, crashVars, healthVars>>

\* acquire() with the window full: prune, compute wait_time, sleep (82-88).
AcquireSuspend ==
    /\ rl_pc = "idle"
    /\ started < MaxCalls
    /\ \E d \in Delays :
         LET now == rl_clock + d
             kept == Pruned(calls, now)
         IN  /\ LimitHit(kept)
             /\ rl_clock' = now
             /\ rl_now' = now
             /\ calls' = kept
             /\ wait_time' = WaitTime(kept, now)
    /\ started' = started + 1
    /\ rl_pc' = "sleeping"
    /\ UNCHANGED <<admits, recorded>>
    /\ UNCHANGED <<sweepVars, resolveVars, crashVars, healthVars>>

\* asyncio.sleep(wait_time) returns; now is appended and acquire returns (90).
AcquireWake ==
    /\ rl_pc = "sleeping"
    /\ \E late \in Lateness :
         rl_clock' = rl_now + wait_time * TicksPerSecond + late
    /\ calls' = Append(calls, rl_now)
    /\ recorded' = Append(recorded, rl_now)
    /\ admits' = Append(admits, rl_clock')
    /\ rl_pc' = "idle"
    /\ wait_time' = 0
    /\ UNCHANGED <<rl_now, started>>
    /\ UNCHANGED <<sweepVars, resolveVars, crashVars, healthVars>>

NextRL ==
    \/ AcquireAdmit
    \/ AcquireSuspend
    \/ AcquireWake

SpecRL == Init /\ [][NextRL]_vars

\* the event loop resumes a task whose sleep has elapsed
FairSpecRL == SpecRL /\ WF_vars(AcquireWake)


\* ======================================================================
\* Properties
\* ======================================================================
\* The process is killed and started again: on_ready loads the history
\* file into last_processed_times (line 220) and starts the loop (230).
OnRestart ==
    /\ ~crashed
    /\ h_pc = "idle"
    /\ crashed' = TRUE
    /\ ReturnFromSweep
    /\ lastResolve' = "none"
    /\ m_attempts' = 0
    /\ UNCHANGED <<clock, delivered, resent, resentAfterCrash>>
    /\ UNCHANGED <<rlVars, healthVars>>

\* killed at any point; load_history returns the content of the file (100)
CrashRestart ==
    /\ OnRestart
    /\ last_processed_times' = history_file
    /\ UNCHANGED history_file

\* killed while save_history (285) has opened the file for writing (110)
\* and not yet written it: the file is left empty, json.loads raises and
\* load_history returns {} (102-104)
CrashInSaveRestart ==
    /\ pc = "post"
    /\ pos = Len(feed)
    /\ newest_time # NONE
    /\ OnRestart
    /\ history_file' = EmptyDict
    /\ last_processed_times' = EmptyDict

NextCrash ==
    \/ Next
    \/ CrashRestart
    \/ CrashInSaveRestart

SpecCrash == Init /\ [][NextCrash]_vars

\* ======================================================================
\* health_check and shutdown. Both tasks run on one event loop: a step of
\* one task that reads what the other writes happens while the other is
\* suspended at an await.

\* the sweep task is suspended: sleeping until the next tick, or in
\* get_list_members (248), fetch_posts (257) or channel.send (281)
AtAwait ==
    \/ pc \in {"idle", "resolve", "fetch"}
    \/ /\ pc = "post"
       /\ pos < Len(feed)
       /\ ~TooOld(current_time, handle, post)
       /\ ~AlreadySeen(newest_time, handle, post)

\* the loop of line 293 fires: get_profile is called (297-300)
HealthStart ==
    /\ h_pc = "idle"
    /\ pc # "cancelled"
    /\ h_pc' = "checking"
    /\ UNCHANGED <<sweepVars, rlVars, resolveVars, crashVars, cancelledAt>>

\* get_profile returns and the chat client is ready (305 false)
HealthOk ==
    /\ h_pc = "checking"
    /\ h_pc' = "idle"
    /\ UNCHANGED <<sweepVars, rlVars, resolveVars, crashVars, cancelledAt>>

\* get_profile raises: the except of 309-311 calls shutdown
HealthProfileFails ==
    /\ h_pc = "checking"
    /\ h_pc' = "saving"
    /\ UNCHANGED <<sweepVars, rlVars, resolveVars, crashVars, cancelledAt>>

\* the chat client is not ready: line 307 calls shutdown
HealthNotReady ==
    /\ h_pc = "checking"
    /\ h_pc' = "saving"
    /\ UNCHANGED <<sweepVars, rlVars, resolveVars, crashVars, cancelledAt>>

\* shutdown, line 318: save_history writes the map as it is now (111)
ShutdownSave ==
    /\ h_pc = "saving"
    /\ AtAwait
    /\ history_file' = last_processed_times
    /\ h_pc' = "saved"
    /\ UNCHANGED <<pc, clock, current_time, handles, idx, attempts, feed, pos,
                   newest_time, last_processed_times, startW, sent, outcome,
                   outcomes, delivered, resent>>
    /\ UNCHANGED <<rlVars, resolveVars, crashVars, cancelledAt>>

\* shutdown, line 318: save_history fails, logs and returns (112-113)
ShutdownSaveFails ==
    /\ h_pc = "saving"
    /\ h_pc' = "saved"
    /\ UNCHANGED <<sweepVars, rlVars, resolveVars, crashVars, cancelledAt>>

\* shutdown, lines 321-322: both loops are cancelled. The sweep task is
\* stopped at the await it is suspended at; the health_check task is the
\* one running shutdown and is cancelled at its next suspension.
ShutdownCancel ==
    /\ h_pc = "saved"
    /\ AtAwait
    /\ cancelledAt' = pc
    /\ pc' = "cancelled"
    /\ h_pc' = "closing"
    /\ UNCHANGED <<clock, current_time, handles, idx, attempts, feed, pos,
                   newest_time, last_processed_times, history_file, startW,
                   sent, outcome, outcomes, delivered, resent>>
    /\ UNCHANGED <<rlVars, resolveVars, crashVars>>

\* shutdown, lines 325-328: discord_client.close() returns without having
\* suspended the task, and sys.exit(0) ends the process
ShutdownExit ==
    /\ h_pc = "closing"
    /\ h_pc' = "exited"
    /\ UNCHANGED <<sweepVars, rlVars, resolveVars, crashVars, cancelledAt>>

\* shutdown, line 325: discord_client.close() suspends the task, which
\* the cancel of line 322 then ends with CancelledError; the except of 309
\* does not catch it and line 328 is not reached
ShutdownInterrupted ==
    /\ h_pc = "closing"
    /\ h_pc' = "interrupted"
    /\ UNCHANGED <<sweepVars, rlVars, resolveVars, crashVars, cancelledAt>>

NextSD ==
    \/ Next
    \/ HealthStart
    \/ HealthOk
    \/ HealthProfileFails
    \/ HealthNotReady
    \/ ShutdownSave
    \/ ShutdownSaveFails
    \/ ShutdownCancel
    \/ ShutdownExit
    \/ ShutdownInterrupted

SpecSD == Init /\ [][NextSD]_vars

\* ======================================================================
\* The sweep and the limiter it calls, each running from the initial
\* state. They share no variable, so their steps are not interleaved: a
\* behaviour is a behaviour of the sweep or one of the limiter.
\* the limiter has not been called
SweepOnly == started = 0

\* no sweep has started
AcquireOnly == pc = "idle" /\ clock = 0

NextParts ==
    \/ SweepOnly /\ TickNoChannel
    \/ SweepOnly /\ Tick
    \/ SweepOnly /\ GetListMembersFails
    \/ SweepOnly /\ GetListMembersEmpty
    \/ SweepOnly /\ GetListMembersOk
    \/ SweepOnly /\ FetchRetry
    \/ SweepOnly /\ FetchExhausted
    \/ SweepOnly /\ FetchEmpty
    \/ SweepOnly /\ FetchOk
    \/ SweepOnly /\ SkipOld
    \/ SweepOnly /\ SkipSeen
    \/ SweepOnly /\ SendOk
    \/ SweepOnly /\ SendFails
    \/ SweepOnly /\ CommitSaved
    \/ SweepOnly /\ CommitSaveFails
    \/ SweepOnly /\ NoCommit
    \/ SweepOnly /\ NextHandle
    \/ SweepOnly /\ SweepDone
    \/ AcquireOnly /\ AcquireAdmit
    \/ AcquireOnly /\ AcquireSuspend
    \/ AcquireOnly /\ AcquireWake

\* a sweep that has started is suspended in a remote call (248, 257, 281,
\* 285) or runs to its next await
Running == pc # "idle" /\ Next

\* every remote call returns or raises, and the event loop resumes the
\* task that was waiting for it
FairSpecParts ==
    Init /\ [][NextParts]_vars /\ WF_vars(Running) /\ WF_vars(AcquireWake)

\* ======================================================================
\* a handle's processing has just ended with every send succeeding
HandleDoneOk == pc = "done" /\ outcome = "ok"

\* the posts of feed f the contract of the Dedup/Age Filter makes eligible
Eligible(h, f, W, now) ==
    {k \in Range(f) : /\ (W = NONE \/ post_time(h, k) > W)
                      /\ now - post_time(h, k) <= POST_AGE_THRESHOLD}

\* s lists its posts in strictly increasing timestamp order
Chronological(h, s) ==
    \A i, j \in 1..Len(s) : i < j => post_time(h, s[i]) < post_time(h, s[j])

\* ---------------------------------------------------------------------- C1
\* C1: no post of any handle is sent more than once, whatever the fetch and
\* delivery failures: once a post has been sent no later sweep sends it again.
NoPostSentTwice == resent = FALSE

\* ---------------------------------------------------------------------- C2
\* C2: watermark monotonicity: no step removes a handle's watermark or
\* replaces it by an earlier timestamp, whatever the order of the feed.
WatermarkMonotone ==
    [][\A h \in DOMAIN last_processed_times :
          /\ h \in DOMAIN last_processed_times'
          /\ fromisoformat(last_processed_times'[h])
                 >= fromisoformat(last_processed_times[h])]_vars

\* a watermark was advanced from an earlier value by a feed that is not in
\* timestamp order
WatermarkAdvancedUnsorted ==
    /\ HandleDoneOk
    /\ startW # NONE
    /\ Watermark(last_processed_times, handle) > startW
    /\ \E i, j \in 1..Len(feed) :
          i < j /\ post_time(handle, feed[i]) < post_time(handle, feed[j])
    /\ \E i \in 1..Len(feed) : post_time(handle, feed[i]) < startW

\* ---------------------------------------------------------------------- C3
\* C3: with every send succeeding, the posts sent for a handle are exactly
\* the posts of the feed newer than the watermark the processing started
\* from (or all, if absent) and no older than the age threshold.
FilterMatchesReference ==
    HandleDoneOk =>
        Range(sent) = Eligible(handle, feed, startW, current_time)

\* ---------------------------------------------------------------------- C4
\* C4: a feed whose posts have distinct timestamps, all newer than the
\* watermark and within the age threshold, is forwarded whole and in
\* timestamp order, whatever the order of the feed.
ChronologicalForwardsAll ==
    (/\ HandleDoneOk
     /\ Eligible(handle, feed, startW, current_time) = Range(feed)
     /\ \A i, j \in 1..Len(feed) :
           i # j => post_time(handle, feed[i]) # post_time(handle, feed[j]))
    => (/\ Range(sent) = Range(feed)
        /\ Len(sent) = Len(feed)
        /\ Chronological(handle, sent))


\* ---------------------------------------------------------------------- C5
\* C5: rate budget: no more than calls_per_minute calls of acquire() return
\* within any trailing 60-second window; that is, of any calls_per_minute+1
\* consecutive returns the last is at least 60 seconds after the first.
RateBudget ==
    \A i \in 1..Len(admits) :
        i + calls_per_minute <= Len(admits)
            => admits[i + calls_per_minute] - admits[i] >= WINDOW

\* ---------------------------------------------------------------------- C6
\* C6: acquire() never denies: a call that finds the window full sleeps for
\* 60 minus the whole seconds since the oldest recorded call, between 1 and
\* 60 seconds, and is then admitted; every call returns, having recorded
\* exactly one timestamp.
AcquireNeverDenies ==
    /\ [](rl_pc = "sleeping" =>
            /\ LimitHit(calls)
            /\ wait_time \in 1..60
            /\ \E elapsed \in 0..59 :
                  /\ elapsed * TicksPerSecond <= rl_now - Min(Range(calls))
                  /\ rl_now - Min(Range(calls)) < (elapsed + 1) * TicksPerSecond
                  /\ wait_time = 60 - elapsed)
    /\ [](/\ Len(recorded) = Len(admits)
          /\ started = Len(admits) + (IF rl_pc = "sleeping" THEN 1 ELSE 0))
    /\ [][rl_pc = "sleeping" =>
            /\ rl_pc' = "idle"
            /\ rl_clock' - rl_now >= wait_time * TicksPerSecond
            /\ admits' = Append(admits, rl_clock')
            /\ recorded' = Append(recorded, rl_now)]_vars
    /\ (rl_pc = "sleeping" ~> rl_pc = "idle")

\* the call issued right after calls_per_minute immediate calls was delayed
\* by 60 seconds and has returned
SuspendedCallAdmitted ==
    /\ rl_pc = "idle"
    /\ started = calls_per_minute + 1
    /\ Len(admits) = calls_per_minute + 1
    /\ admits[calls_per_minute] = 0
    /\ recorded[calls_per_minute + 1] = 0
    /\ admits[calls_per_minute + 1] >= WINDOW

\* ---------------------------------------------------------------------- C7
\* C7: isolation: a handle whose fetch fails on every attempt, or whose
\* processing raises, never ends the sweep and changes no watermark; the
\* handles after it are fetched, filtered and forwarded and their watermark
\* set exactly as the loop does on their own feed and watermark.
Failed(o) == o \in {"fetchfail", "sendfail"}

Isolation ==
    /\ []((HandleDoneOk /\ \E i \in 1..Len(outcomes) : Failed(outcomes[i]))
            => LET r == FilterLoop(handle, feed, startW, current_time)
               IN  /\ sent = r.sent
                   /\ Watermark(last_processed_times, handle) = r.newest)
    /\ [][/\ (pc \in {"fetch", "post"} => pc' # "idle")
          /\ (Failed(outcome') =>
                last_processed_times' = last_processed_times)
          /\ ((pc = "done" /\ Failed(outcome) /\ idx < Len(handles))
                => (pc' = "fetch" /\ idx' = idx + 1 /\ handles' = handles))]_vars

\* in a sweep over A, B, C the fetch of B failed and both A and C were
\* forwarded and got their watermark
OthersProcessedAroundFailure ==
    /\ HandleDoneOk
    /\ handles = <<"A", "B", "C">>
    /\ idx = 3
    /\ outcomes = <<"ok", "fetchfail">>
    /\ sent # <<>>
    /\ "A" \in DOMAIN last_processed_times
    /\ "C" \in DOMAIN last_processed_times
    /\ "B" \notin DOMAIN last_processed_times

\* ---------------------------------------------------------------------- C8
\* C8: idempotence: once a handle has been processed with every send
\* succeeding and its watermark committed, running the loop again on the
\* same feed, at the same or any later time, sends nothing and leaves the
\* watermark where it is.
Idempotence ==
    (HandleDoneOk /\ newest_time # NONE) =>
        /\ sent = FilterLoop(handle, feed, startW, current_time).sent
        /\ \A later \in current_time..MaxClock :
              LET W == InitialNewest(last_processed_times, handle)
                  again == FilterLoop(handle, feed, W, later)
              IN  /\ again.sent = <<>>
                  /\ isoformat(again.newest) = last_processed_times[handle]

\* a processing that sent posts and committed their watermark
CommittedAfterSending ==
    /\ HandleDoneOk
    /\ sent # <<>>
    /\ Len(feed) > Len(sent)
    /\ startW # NONE
    /\ Watermark(last_processed_times, handle) > startW

\* ---------------------------------------------------------------------- C9
\* C9: the age boundary is inclusive: a post exactly POST_AGE_THRESHOLD old
\* passes the age check and, when the dedup check of line 272 lets it
\* through, is handed to the delivery; a post older than the threshold is
\* never sent and never becomes the watermark.
ageOf(h, k) == current_time - post_time(h, k)

FetchRetryCeiling ==
    /\ [](attempts <= 3)
    /\ [](outcome = "fetchfail" => (attempts = 3 /\ pc = "done"))
    /\ [][(pc = "fetch" /\ pc' = "fetch" /\ idx' = idx /\ handles' = handles)
             => (attempts' = attempts + 1 /\ attempts' < 3)]_vars
    /\ [][(pc = "fetch" /\ attempts = 2)
             => (pc' \in {"done", "post"})]_vars
    /\ [][(pc = "done" /\ outcome = "fetchfail")
             => \/ idx < Len(handles) /\ pc' = "fetch" /\ idx' = idx + 1
                   /\ attempts' = 0
                \/ idx = Len(handles) /\ pc' = "idle"]_vars

\* the fetch of the first handle failed 3 times and the second handle is
\* being fetched
NextHandleAfterExhaustion ==
    /\ pc = "fetch"
    /\ idx = 2
    /\ outcomes = <<"fetchfail">>
    /\ attempts = 1
\* --------------------------------------------------------------------- C11
\* C11: when the remote list call of get_list_members raises, the call is
\* made again, and membership resolution counts as failed only after the
\* 3rd failed attempt: a resolution that ended by a raised exception has
\* made 3 remote calls.
MembershipRetried ==
    (pc = "idle" /\ lastResolve = "raised") => m_attempts = MAX_ATTEMPTS

\* --------------------------------------------------------------------- C12
\* C12: when get_list_members returns an empty list or fails, the sweep
\* ends at once: no fetch is attempted and nothing is sent, the watermark
\* map and the history file are left as they were, the sweep returns to
\* idle rather than raising, and the step that follows is an ordinary tick.
EmptyMembershipFrame ==
    /\ [][(pc = "resolve" /\ lastResolve' \in {"empty", "raised"})
          => /\ pc' = "idle"
             /\ attempts = 0 /\ attempts' = 0
             /\ feed' = <<>> /\ sent' = <<>>
             /\ delivered' = delivered
             /\ last_processed_times' = last_processed_times
             /\ history_file' = history_file]_vars
    /\ [][(pc = "resolve" /\ pc' = "idle")
          => lastResolve' \in {"empty", "raised"}]_vars
    /\ [][(pc = "idle" /\ lastResolve \in {"empty", "raised"}
              /\ pc' # "idle")
          => /\ pc' = "resolve"
             /\ last_processed_times' = last_processed_times
             /\ history_file' = history_file]_vars

\* a tick has started a sweep after a sweep whose membership resolution
\* failed while watermarks were stored
TickAfterFailedMembership ==
    /\ pc = "resolve"
    /\ lastResolve = "raised"
    /\ DOMAIN last_processed_times # {}
    /\ history_file = last_processed_times

\* --------------------------------------------------------------------- C14
\* C14: when the sends of a handle succeed for the first k >= 1 surviving
\* posts and the next send fails, the watermark of the handle, in memory
\* and in the history file, is afterwards at least the indexed_at of the
\* last post that was sent.
PartialSuccessCommitted ==
    (pc = "done" /\ outcome = "sendfail" /\ sent # <<>>)
        => /\ Watermark(last_processed_times, handle)
                 >= post_time(handle, sent[Len(sent)])
           /\ Watermark(history_file, handle)
                 >= post_time(handle, sent[Len(sent)])

\* --------------------------------------------------------------------- C17
\* C17: when a handle has been processed with at least one post sent and
\* every send succeeding, its watermark is the largest indexed_at among the
\* posts sent for it in that sweep, also when several posts were sent.
Max(S) == CHOOSE x \in S : \A y \in S : y <= x

WatermarkIsNewestSent ==
    (HandleDoneOk /\ sent # <<>>)
        => LET newest == Max({post_time(handle, sent[i]) : i \in 1..Len(sent)})
           IN  /\ handle \in DOMAIN last_processed_times
               /\ last_processed_times[handle] = isoformat(newest)
               /\ Watermark(last_processed_times, handle) = newest

\* two posts with different timestamps were sent for a handle that had a
\* watermark, and the watermark is now the later timestamp
SeveralSentWithWatermark ==
    /\ HandleDoneOk
    /\ startW # NONE
    /\ Len(sent) = 2
    /\ post_time(handle, sent[1]) < post_time(handle, sent[2])
    /\ Watermark(last_processed_times, handle) = post_time(handle, sent[2])

\* --------------------------------------------------------------------- C18
\* C18: when the processing of a handle yields no post to forward (the
\* fetch failed, the feed is empty, or no post is both newer than the
\* watermark and within the age threshold), nothing is sent for the handle
\* and the watermark map is left as it was: the entry of the handle keeps
\* its value, and no entry is created where there was none.
NoSurvivor ==
    \/ outcome \in {"fetchfail", "empty"}
    \/ outcome = "ok" /\ Eligible(handle, feed, startW, current_time) = {}

NoSurvivorFrame ==
    /\ [][(pc \in {"fetch", "post"} /\ pc' = "done" /\ NoSurvivor')
          => /\ sent' = <<>>
             /\ delivered' = delivered
             /\ last_processed_times' = last_processed_times]_vars
    /\ [][(pc \in {"fetch", "post"} /\ pc' \in {"fetch", "post"})
          => last_processed_times' = last_processed_times]_vars
    /\ []((pc = "done" /\ NoSurvivor) => sent = <<>>)
    /\ []((HandleDoneOk /\ NoSurvivor)
          => Watermark(last_processed_times, handle) = startW)

\* a handle with a watermark was processed on a feed holding only posts
\* that are too old or already seen
NoSurvivorWithWatermark ==
    /\ HandleDoneOk
    /\ startW # NONE
    /\ feed # <<>>
    /\ sent = <<>>
    /\ \E i \in 1..Len(feed) : AlreadySeen(startW, handle, feed[i])
    /\ Watermark(last_processed_times, handle) = startW

\* --------------------------------------------------------------------- C19
\* C19: no step of a sweep removes a key of the watermark map, and a step
\* changes or creates no entry but that of the handle being processed, so
\* that a handle absent from the resolved membership keeps its entry; the
\* map holds an entry only for a handle a sweep has sent a post of.
WatermarkEntriesFrame ==
    /\ [][/\ DOMAIN last_processed_times \subseteq DOMAIN last_processed_times'
          /\ \A h \in DOMAIN last_processed_times' :
                (\/ h \notin DOMAIN last_processed_times
                 \/ last_processed_times'[h] # last_processed_times[h])
                => (pc = "post" /\ h = handle)]_vars
    /\ [](\A h \in DOMAIN last_processed_times :
            \E k \in PostIds(h) : <<h, k>> \in delivered)

\* a watermark was committed in a sweep whose membership lacks a handle
\* that has an entry
CommittedBesideDroppedHandle ==
    /\ HandleDoneOk
    /\ sent # <<>>
    /\ \E h \in DOMAIN last_processed_times : h \notin Range(handles)
\* --------------------------------------------------------------------- C13
\* C13: one health_check run in which get_profile raises or the chat client
\* is not ready starts shutdown in that run, and shutdown runs to its end:
\* the sweep task is cancelled and the process exits, after which nothing
\* is sent.
HealthFailureShutsDown ==
    (h_pc \in {"exited", "interrupted"})
        => (pc = "cancelled" /\ h_pc = "exited")

\* --------------------------------------------------------------------- C15
\* C15: the watermark of a handle is in the history file before the next
\* handle is fetched, so that after a crash at any point of a sweep and a
\* restart from the file no post sent before the crash is sent again.
NoResendAfterCrash == resentAfterCrash = FALSE

\* --------------------------------------------------------------------- C16
\* C16: the sweep task cancelled by shutdown stops between two accounts
\* only: it is never stopped after a post of a handle was sent and before
\* the watermark of that handle was committed, and the history file
\* written by shutdown covers every post sent.
CancelledBetweenAccounts ==
    pc = "cancelled"
        => /\ ~(cancelledAt = "post" /\ sent # <<>>)
           /\ \A d \in delivered :
                 Watermark(history_file, d[1]) >= post_time(d[1], d[2])
\* --------------------------------------------------------------------- C20
\* C20: every sweep terminates: a sweep that has left idle goes through
\* membership resolution, then through the accounts, and is back in idle
\* after finitely many steps, whatever fetches and sends fail; a fetch is
\* attempted at most 3 times, an acquire() that sleeps returns when the
\* sleep ends without sleeping again, and a failed membership resolution
\* ends the sweep and leaves the next tick enabled.
SweepTerminates ==
    /\ (pc # "idle" ~> pc = "idle")
    /\ (rl_pc = "sleeping" ~> rl_pc = "idle")
    /\ [](attempts <= MAX_ATTEMPTS)
    /\ [][pc = "idle" => pc' \in {"idle", "resolve"}]_vars
    /\ [][pc = "resolve" => pc' \in {"idle", "fetch"}]_vars
    /\ [][(pc = "resolve" /\ lastResolve' \in {"empty", "raised"})
             => pc' = "idle"]_vars
    /\ [][(pc \in {"fetch", "post", "done"} /\ pc' = "idle")
             => (pc = "done" /\ idx = Len(handles))]_vars
    /\ [][rl_pc = "sleeping"
             => (rl_pc' = "idle" /\ Len(admits') = Len(admits) + 1)]_vars
    /\ []((pc = "idle" /\ clock < MaxClock) => ENABLED Tick)

\* a sweep over three handles went through a fetch that failed 3 times and
\* a send that failed, and is at the end of its last handle
SweepEndsAfterFailures ==
    /\ pc = "done"
    /\ Len(handles) = 3
    /\ idx = Len(handles)
    /\ outcomes = <<"sendfail", "fetchfail">>
    /\ ENABLED SweepDone
=============================================================================
